---- MODULE Spec2Model ----
(***************************************************************************)
(* Model of scripts/run_model_ollama.py: the daemon client, the local-file *)
(* registrar, the setup resolver, the two generation functions, the        *)
(* interactive loop and main.                                              *)
(*                                                                         *)
(* The program is single-threaded.  A state holds the position of the      *)
(* program (pc, stack), the arguments and locals of the active functions,  *)
(* the environment (files on disk, the operator's keyboard input still to  *)
(* come) and a log of every external effect in the order it happened.      *)
(* What the daemon, the import tool and the chat library answer is chosen  *)
(* nondeterministically at the step that asks.                             *)
(*                                                                         *)
(* Encodings.  A text is a sequence of one-character strings.  A path is a *)
(* sequence of tokens: "/" is the separator, any other token is a piece of *)
(* a name.  None and the empty string, which the code only ever tests for  *)
(* truthiness, are both the empty text.  Temperatures are in tenths.       *)
(*                                                                         *)
(* Environment assumption (spec section 5): the operator's interrupt       *)
(* arrives only while the interactive loop is running, at the console read *)
(* or in the streaming generation the loop started.                        *)
(***************************************************************************)
EXTENDS Integers, Sequences, FiniteSets

VARIABLES
    entry,            \* the function the run starts in
    pc,               \* position of the program
    stack,            \* active functions, innermost last
    raised,           \* exception in flight: "none", "Exception", "KeyboardInterrupt"
    ret,              \* value returned by the function that returned last
    args,             \* arguments of the entry function
    model_folder,     \* register_gguf_model's model_folder
    gguf_filename,    \* register_gguf_model's gguf_filename
    available_models, \* check_and_setup_model's available_models
    gen_args,         \* prompt, max_length, temperature of the running generation
    full_response,    \* generate_text_streaming_ollama_lib's full_response
    user_input,       \* interactive_mode's user_input
    files,            \* regular files on disk
    manifests,        \* Modelfiles on disk: location and content
    stdin,            \* what the operator will still type
    consumed,         \* what input() has consumed so far
    intr,             \* an operator interrupt has been delivered
    probe_resp,       \* the daemon's answer to the liveness probe
    list_resp,        \* the daemon's answer to the listing request
    post_resp,        \* the daemon's answer to the last POST
    events,           \* what the current response stream has delivered
    printed,          \* fragments the current streaming generation printed
    log,              \* external effects, in order
    exit_code         \* the process's exit code, NoExit while it runs

vars == <<entry, pc, stack, raised, ret, args, model_folder, gguf_filename,
          available_models, gen_args, full_response, user_input, files,
          manifests, stdin, consumed, intr, probe_resp, list_resp, post_resp,
          events, printed, log, exit_code>>

inputs == <<entry, args, files>>
setup_locals == <<model_folder, gguf_filename, available_models>>
gen_locals == <<gen_args, full_response, printed>>
loop_locals == <<user_input, stdin, consumed, intr>>
daemon_hist == <<probe_resp, list_resp, post_resp>>

-----------------------------------------------------------------------------
(* Bounds of the model *)

MaxPathLen == 3
MaxEvents == 2
MaxFragments == 2
MaxTurns == 2
MaxTempOver == 3
MaxLenOver == 2

(* Program constants *)

HTTP_OK == 200
TEMP_MIN == 1
TEMP_MAX == 20
NUM_PREDICT_CAP == 2048
DEFAULT_MAX_LENGTH == 512
DEFAULT_TEMPERATURE == 7

NoExit == 0 - 1
NaN == 0 - 1000

-----------------------------------------------------------------------------
(* Values *)

RTrue == [tag |-> "True", text |-> <<>>]
RFalse == [tag |-> "False", text |-> <<>>]
RNone == [tag |-> "None", text |-> <<>>]
RUnset == [tag |-> "unset", text |-> <<>>]
RText(t) == [tag |-> "text", text |-> t]

Truthy(v) == v.tag = "True" \/ (v.tag = "text" /\ v.text # <<>>)

Effect(op, what, arg, body, opts) ==
    [op |-> op, what |-> what, arg |-> arg, body |-> body, opts |-> opts]

Say(msg) == Effect("print", msg, <<>>, <<>>, <<>>)

NoResp == [exc |-> FALSE, status |-> 0, names |-> {}, malformed |-> FALSE]
TransportFailure == [exc |-> TRUE, status |-> 0, names |-> {}, malformed |-> FALSE]
Status(s) == [exc |-> FALSE, status |-> s, names |-> {}, malformed |-> FALSE]
Statuses == {HTTP_OK, 404, 500}
PlainResponses == {TransportFailure} \cup {Status(s) : s \in Statuses}

RECURSIVE Flatten(_)
Flatten(ss) == IF ss = <<>> THEN <<>> ELSE Head(ss) \o Flatten(Tail(ss))

RECURSIVE SeqsUpTo(_, _)
SeqsUpTo(S, n) ==
    IF n = 0 THEN {<<>>}
    ELSE LET shorter == SeqsUpTo(S, n - 1)
         IN shorter \cup {Append(s, x) : s \in shorter, x \in S}

-----------------------------------------------------------------------------
(* os.path on POSIX *)

SEP == "/"

LastSep(p) ==
    LET at == {i \in 1..Len(p) : p[i] = SEP}
    IN IF at = {} THEN 0 ELSE CHOOSE i \in at : \A j \in at : j <= i

AllSep(p) == \A i \in 1..Len(p) : p[i] = SEP

RECURSIVE RStripSep(_)
RStripSep(p) ==
    IF p # <<>> /\ p[Len(p)] = SEP THEN RStripSep(SubSeq(p, 1, Len(p) - 1)) ELSE p

dirname(p) ==
    LET head == SubSeq(p, 1, LastSep(p))
    IN IF head # <<>> /\ ~AllSep(head) THEN RStripSep(head) ELSE head

basename(p) == SubSeq(p, LastSep(p) + 1, Len(p))

join(a, b) ==
    IF b # <<>> /\ b[1] = SEP THEN b
    ELSE IF a = <<>> \/ a[Len(a)] = SEP THEN a \o b
    ELSE a \o <<SEP>> \o b

(* The file system's reading of a path: absolute or not, and its components *)
RECURSIVE Components(_)
Components(p) ==
    IF p = <<>> THEN <<>>
    ELSE IF p[1] = SEP THEN Components(Tail(p))
    ELSE LET seps == {i \in 1..Len(p) : p[i] = SEP}
             stop == IF seps = {} THEN Len(p) + 1
                     ELSE CHOOSE i \in seps : \A j \in seps : i <= j
         IN <<SubSeq(p, 1, stop - 1)>> \o Components(SubSeq(p, stop, Len(p)))

Resolve(p) == [abs |-> p # <<>> /\ p[1] = SEP, comps |-> Components(p)]

isfile(p) == p # <<>> /\ p[Len(p)] # SEP /\ Resolve(p) \in files


-----------------------------------------------------------------------------
(* str.strip and str.lower *)

WS == {" ", "\t"}

RECURSIVE LStrip(_)
LStrip(s) == IF s # <<>> /\ s[1] \in WS THEN LStrip(Tail(s)) ELSE s

RECURSIVE RStrip(_)
RStrip(s) ==
    IF s # <<>> /\ s[Len(s)] \in WS THEN RStrip(SubSeq(s, 1, Len(s) - 1)) ELSE s

strip(s) == RStrip(LStrip(s))

LowerChar(c) ==
    CASE c = "Q" -> "q" [] c = "U" -> "u" [] c = "I" -> "i" [] c = "T" -> "t"
      [] c = "H" -> "h" [] c = "E" -> "e" [] c = "L" -> "l" [] c = "P" -> "p"
      [] c = "C" -> "c" [] c = "A" -> "a" [] c = "R" -> "r"
      [] OTHER -> c

lower(s) == [i \in 1..Len(s) |-> LowerChar(s[i])]

-----------------------------------------------------------------------------
(* Python's min and max of two numbers: the first argument is kept unless  *)
(* the second compares strictly smaller (larger); every ordered comparison *)
(* with NaN is false.                                                      *)

PyLt(a, b) == a # NaN /\ b # NaN /\ a < b

PyMin(a, b) == IF PyLt(b, a) THEN b ELSE a

PyMax(a, b) == IF PyLt(a, b) THEN b ELSE a

-----------------------------------------------------------------------------
(* Control: goto, call, return.  Each also appends effects to the log.     *)

Continuation(caller, callee) ==
    CASE caller = "main" /\ callee = "check_and_setup_model" -> "main_after_setup"
      [] caller = "main" /\ callee = "generate_text_ollama_lib" -> "main_after_generate"
      [] caller = "main" /\ callee = "interactive_mode" -> "main_end"
      [] caller = "check_and_setup_model" -> "setup_return"
      [] caller = "interactive_mode" -> "interactive_after_generate"
      [] OTHER -> "done"

Goto(label, effects) ==
    /\ pc' = label
    /\ log' = log \o effects
    /\ UNCHANGED <<stack, ret>>

Call(fn, effects) ==
    /\ pc' = fn
    /\ stack' = Append(stack, fn)
    /\ log' = log \o effects \o <<Effect("call", fn, <<>>, <<>>, <<>>)>>
    /\ UNCHANGED ret

Return(v, effects) ==
    LET fn == stack[Len(stack)]
        rest == SubSeq(stack, 1, Len(stack) - 1)
    IN /\ stack' = rest
       /\ pc' = IF rest = <<>> THEN "done" ELSE Continuation(rest[Len(rest)], fn)
       /\ ret' = v
       /\ log' = log \o effects \o <<Effect("return", fn, <<>>, <<v.tag>>, <<>>)>>

-----------------------------------------------------------------------------
(* OllamaClient *)

ModelNames == {"x", "y"}

Listing(names) == [exc |-> FALSE, status |-> HTTP_OK, names |-> names, malformed |-> FALSE]
MalformedListing == [exc |-> FALSE, status |-> HTTP_OK, names |-> {}, malformed |-> TRUE]
ListResponses ==
    PlainResponses \cup {Listing(n) : n \in SUBSET ModelNames} \cup {MalformedListing}

GetTags == Effect("GET", "/api/tags", <<>>, <<>>, <<>>)

check_ollama_running_lenient(resp) == resp.exc \/ resp.status = HTTP_OK

check_ollama_running(resp) == ~resp.exc /\ resp.status = HTTP_OK

list_models(resp) ==
    IF resp.exc THEN {}
    ELSE IF resp.status = HTTP_OK THEN resp.names
    ELSE {}

(* One line of a streamed response: blank, not JSON, or a JSON object with *)
(* some of the keys the client looks for.                                  *)
JsonLine(keys) == [kind |-> "json", keys |-> keys, text |-> <<>>]
Marker(kind) == [kind |-> kind, keys |-> {}, text |-> <<>>]
Chunk(t) == [kind |-> "chunk", keys |-> {}, text |-> t]
StreamLines ==
    {JsonLine(k) : k \in SUBSET {"status", "completed_at"}}
        \cup {Marker("blank"), Marker("malformed")}

(* What the loop over response.iter_lines() does with one line *)
StreamStep(line) ==
    IF line.kind = "blank" THEN "next"
    ELSE IF line.kind = "malformed" THEN "raise"
    ELSE IF "status" \in line.keys THEN "next"
    ELSE IF "completed_at" \in line.keys THEN "return True"
    ELSE "next"

PostEffect(fn) ==
    IF fn = "pull_model"
    THEN Effect("POST", "/api/pull", <<>>, <<args.model>>, <<>>)
    ELSE Effect("POST", "/api/create", <<>>,
                <<args.model, "FROM ", args.huggingface_model>>, <<>>)

Post(fn) ==
    /\ pc = fn
    /\ \E r \in PlainResponses :
         /\ post_resp' = r
         /\ events' = <<>>
         /\ IF r.exc THEN Return(RFalse, <<PostEffect(fn)>>)
            ELSE IF r.status = HTTP_OK THEN Goto(fn \o "_lines", <<PostEffect(fn)>>)
            ELSE Return(RFalse, <<PostEffect(fn)>>)
    /\ UNCHANGED <<inputs, setup_locals, gen_locals, loop_locals, raised,
                   manifests, probe_resp, list_resp, exit_code>>

Lines(fn) ==
    /\ pc = fn \o "_lines"
    /\ \/ \E line \in StreamLines :
            /\ Len(events) < MaxEvents
            /\ events' = Append(events, line)
            /\ CASE StreamStep(line) = "next" ->
                      Goto(pc, <<>>) /\ UNCHANGED raised
                 [] StreamStep(line) = "return True" ->
                      Return(RTrue, <<>>) /\ UNCHANGED raised
                 [] StreamStep(line) = "raise" ->
                      /\ raised' = "Exception"
                      /\ Goto("raise", <<>>)
       \/ /\ events' = Append(events, Marker("eof"))
          /\ Return(RNone, <<>>)
          /\ UNCHANGED raised
       \/ /\ events' = Append(events, Marker("ioerror"))
          /\ Return(RFalse, <<>>)
          /\ UNCHANGED raised
    /\ UNCHANGED <<inputs, setup_locals, gen_locals, loop_locals,
                   manifests, daemon_hist, exit_code>>

pull_model_post == Post("pull_model")

pull_model_lines == Lines("pull_model")

create_custom_model_post == Post("create_custom_model")

create_custom_model_lines == Lines("create_custom_model")

-----------------------------------------------------------------------------
(* register_gguf_model *)

ManifestBodyFullPath(folder, filename) == <<"FROM ./">> \o join(folder, filename) \o <<"\n">>

ManifestBody(folder, filename) == <<"FROM ./">> \o filename \o <<"\n">>

ModelfilePath(folder) == join(folder, <<"Modelfile">>)

register_validate ==
    /\ pc = "register_gguf_model"
    /\ IF ~isfile(join(model_folder, gguf_filename))
       THEN Return(RFalse, <<>>)
       ELSE Goto("register_write", <<>>)
    /\ UNCHANGED <<inputs, setup_locals, gen_locals, loop_locals, raised,
                   manifests, daemon_hist, events, exit_code>>

register_write ==
    /\ pc = "register_write"
    /\ LET path == ModelfilePath(model_folder)
           body == ManifestBody(model_folder, gguf_filename)
       IN \/ /\ manifests' = {m \in manifests : m.at # Resolve(path)}
                                \cup {[at |-> Resolve(path), body |-> body]}
             /\ Goto("register_run", <<Effect("write", "Modelfile", path, body, <<>>)>>)
          \/ /\ Return(RFalse, <<>>)       \* open() or write() raised
             /\ UNCHANGED manifests
    /\ UNCHANGED <<inputs, setup_locals, gen_locals, loop_locals, raised,
                   daemon_hist, events, exit_code>>

ToolOutcomes == {"ok", "CalledProcessError", "OSError"}

register_run ==
    /\ pc = "register_run"
    /\ \E outcome \in ToolOutcomes :
         Return(IF outcome = "ok" THEN RTrue ELSE RFalse,
                <<Effect("run", outcome, ModelfilePath(model_folder),
                         <<"ollama", "create", args.model, "-f">>, <<>>)>>)
    /\ UNCHANGED <<inputs, setup_locals, gen_locals, loop_locals, raised,
                   manifests, daemon_hist, events, exit_code>>

-----------------------------------------------------------------------------
(* check_and_setup_model *)

ModelAvailableNever(name, available) == FALSE

ModelAvailable(name, available) == name \in available

AcquisitionRemoteFirst(gguf_path, huggingface_model) ==
    IF huggingface_model # "" THEN "create_custom_model"
    ELSE IF gguf_path # <<>> THEN "register_gguf_model"
    ELSE "pull_model"

Acquisition(gguf_path, huggingface_model) ==
    IF gguf_path # <<>> THEN "register_gguf_model"
    ELSE IF huggingface_model # "" THEN "create_custom_model"
    ELSE "pull_model"

setup_probe ==
    /\ pc = "check_and_setup_model"
    /\ \E r \in PlainResponses :
         /\ probe_resp' = r
         /\ IF ~check_ollama_running(r)
            THEN Return(RFalse, <<GetTags, Say("Error: Ollama is not running!")>>)
            ELSE Goto("setup_list", <<GetTags>>)
    /\ UNCHANGED <<inputs, setup_locals, gen_locals, loop_locals, raised,
                   manifests, list_resp, post_resp, events, exit_code>>

setup_list ==
    /\ pc = "setup_list"
    /\ \E r \in ListResponses :
         /\ list_resp' = r
         /\ IF r.malformed
            THEN /\ raised' = "Exception"
                 /\ Goto("raise", <<GetTags>>)
                 /\ UNCHANGED available_models
            ELSE /\ available_models' = list_models(r)
                 /\ UNCHANGED raised
                 /\ IF ModelAvailable(args.model, list_models(r))
                    THEN Return(RTrue, <<GetTags>>)
                    ELSE Goto("setup_dispatch", <<GetTags>>)
    /\ UNCHANGED <<inputs, model_folder, gguf_filename, gen_locals, loop_locals,
                   manifests, probe_resp, post_resp, events, exit_code>>

setup_dispatch ==
    /\ pc = "setup_dispatch"
    /\ LET fn == Acquisition(args.gguf_path, args.huggingface_model)
       IN /\ Call(fn, <<>>)
          /\ IF fn = "register_gguf_model"
             THEN /\ model_folder' = dirname(args.gguf_path)
                  /\ gguf_filename' = basename(args.gguf_path)
             ELSE UNCHANGED <<model_folder, gguf_filename>>
    /\ UNCHANGED <<inputs, available_models, gen_locals, loop_locals, raised,
                   manifests, daemon_hist, events, exit_code>>

setup_return ==
    /\ pc = "setup_return"
    /\ Return(ret, <<>>)
    /\ UNCHANGED <<inputs, setup_locals, gen_locals, loop_locals, raised,
                   manifests, daemon_hist, events, exit_code>>

-----------------------------------------------------------------------------
(* generate_text_ollama_lib and generate_text_streaming_ollama_lib *)

ClampTemperatureNoFloor(temperature) == PyMin(TEMP_MAX, temperature)

ClampTemperature(temperature) == PyMax(TEMP_MIN, PyMin(TEMP_MAX, temperature))

CapNumPredict(max_length) == PyMin(max_length, NUM_PREDICT_CAP)

ChatEffect(how) ==
    Effect("chat", how, gen_args.prompt, <<args.model>>,
           <<ClampTemperature(gen_args.temperature), CapNumPredict(gen_args.max_length)>>)

Replies == {<<>>, <<"o">>, <<"o", "k">>}

generate_text_ollama_lib ==
    /\ pc = "generate_text_ollama_lib"
    /\ \/ \E reply \in Replies : Return(RText(reply), <<ChatEffect("single")>>)
       \/ Return(RNone, <<ChatEffect("single")>>)      \* any Exception
    /\ UNCHANGED <<inputs, setup_locals, gen_locals, loop_locals, raised,
                   manifests, daemon_hist, events, exit_code>>

Fragments == {<<>>, <<"a">>, <<"b", "c">>}

AccumulateSkipFirst(response, content) ==
    IF response = <<>> THEN content ELSE content \o response

Accumulate(response, content) == response \o content

stream_start ==
    /\ pc = "generate_text_streaming_ollama_lib"
    /\ full_response' = <<>>
    /\ printed' = <<>>
    /\ events' = <<>>
    /\ Goto("stream_chunk", <<ChatEffect("stream")>>)
    /\ UNCHANGED <<inputs, setup_locals, gen_args, loop_locals, raised,
                   manifests, daemon_hist, exit_code>>

stream_chunk ==
    /\ pc = "stream_chunk"
    /\ \/ \E content \in Fragments :
            /\ Len(events) < MaxFragments
            /\ events' = Append(events, Chunk(content))
            /\ printed' = Append(printed, content)
            /\ full_response' = Accumulate(full_response, content)
            /\ Goto(pc, <<>>)
            /\ UNCHANGED <<raised, intr>>
       \/ /\ events' = Append(events, Marker("eof"))
          /\ Return(RText(full_response), <<>>)
          /\ UNCHANGED <<printed, full_response, raised, intr>>
       \/ \E failure \in {"malformed", "error"} :      \* any Exception
            /\ events' = Append(events, Marker(failure))
            /\ Return(RNone, <<>>)
            /\ UNCHANGED <<printed, full_response, raised, intr>>
       \/ /\ \E i \in 1..Len(stack) : stack[i] = "interactive_mode"
          /\ events' = Append(events, Marker("interrupt"))
          /\ intr' = TRUE
          /\ raised' = "KeyboardInterrupt"
          /\ Goto("raise", <<>>)
          /\ UNCHANGED <<printed, full_response>>
    /\ UNCHANGED <<inputs, setup_locals, gen_args, user_input, stdin, consumed,
                   manifests, daemon_hist, exit_code>>

-----------------------------------------------------------------------------
(* interactive_mode *)

INTR == <<"^C">>       \* input() raises KeyboardInterrupt
ERR == <<"^D">>        \* input() raises another exception (EOFError, ...)

LineQuit == <<"q", "u", "i", "t">>
LineQuitPadded == <<" ", "Q", "u", "i", "T", "\t">>
LineHelp == <<"h", "e", "l", "p">>
LineHelpUpper == <<"H", "E", "L", "P", " ">>
LineClear == <<"C", "l", "e", "a", "r">>
LineEmpty == <<>>
LineBlank == <<" ", "\t">>
LineHi == <<"h", "i">>
LineHiPadded == <<" ", "H", "i", " ">>
LineQuitNow == <<"q", "u", "i", "t", " ", "x">>

InputLines == {LineQuit, LineQuitPadded, LineHelp, LineHelpUpper, LineClear,
               LineEmpty, LineBlank, LineHi, LineHiPadded, LineQuitNow}

TapeSymbols == InputLines \cup {INTR, ERR}

CommandCaseSensitive(line) ==
    IF line = <<"q", "u", "i", "t">> THEN "quit"
    ELSE IF line = <<"h", "e", "l", "p">> THEN "help"
    ELSE IF line = <<"c", "l", "e", "a", "r">> THEN "clear"
    ELSE IF line = <<>> THEN "empty"
    ELSE "prompt"

Command(line) ==
    IF lower(line) = <<"q", "u", "i", "t">> THEN "quit"
    ELSE IF lower(line) = <<"h", "e", "l", "p">> THEN "help"
    ELSE IF lower(line) = <<"c", "l", "e", "a", "r">> THEN "clear"
    ELSE IF line = <<>> THEN "empty"
    ELSE "prompt"

BreaksLoopAny(exception) == TRUE

BreaksLoop(exception) == exception = "KeyboardInterrupt"

interactive_start ==
    /\ pc = "interactive_mode"
    /\ Goto("interactive_read", <<Say("=== Interactive Mode ===")>>)
    /\ UNCHANGED <<inputs, setup_locals, gen_locals, loop_locals, raised,
                   manifests, daemon_hist, events, exit_code>>

interactive_read ==
    /\ pc = "interactive_read"
    /\ stdin # <<>>
    /\ stdin' = Tail(stdin)
    /\ consumed' = Append(consumed, Head(stdin))
    /\ IF Head(stdin) = INTR
       THEN /\ intr' = TRUE
            /\ raised' = "KeyboardInterrupt"
            /\ Goto("interactive_except", <<>>)
            /\ UNCHANGED user_input
       ELSE IF Head(stdin) = ERR
       THEN /\ raised' = "Exception"
            /\ Goto("interactive_except", <<>>)
            /\ UNCHANGED <<user_input, intr>>
       ELSE /\ user_input' = strip(Head(stdin))
            /\ Goto("interactive_dispatch", <<>>)
            /\ UNCHANGED <<raised, intr>>
    /\ UNCHANGED <<inputs, setup_locals, gen_locals, manifests, daemon_hist,
                   events, exit_code>>

interactive_dispatch ==
    /\ pc = "interactive_dispatch"
    /\ CASE Command(user_input) = "quit" ->
              Return(RNone, <<Say("Goodbye!")>>) /\ UNCHANGED gen_args
         [] Command(user_input) = "help" ->
              Goto("interactive_read", <<Say("Commands:")>>) /\ UNCHANGED gen_args
         [] Command(user_input) = "clear" ->
              Goto("interactive_read", <<Say("==========")>>) /\ UNCHANGED gen_args
         [] Command(user_input) = "empty" ->
              Goto("interactive_read", <<>>) /\ UNCHANGED gen_args
         [] Command(user_input) = "prompt" ->
              /\ gen_args' = [prompt |-> user_input,
                              max_length |-> DEFAULT_MAX_LENGTH,
                              temperature |-> DEFAULT_TEMPERATURE]
              /\ Call("generate_text_streaming_ollama_lib",
                      <<Say("Generating response...")>>)
    /\ UNCHANGED <<inputs, setup_locals, full_response, printed, loop_locals,
                   raised, manifests, daemon_hist, events, exit_code>>

(* The turn ends: the response and the turn's stream are dropped *)
interactive_after_generate ==
    /\ pc = "interactive_after_generate"
    /\ pc' = "interactive_read"
    /\ log' = log \o (IF ~Truthy(ret) THEN <<Say("Failed to generate response.")>>
                      ELSE <<>>)
    /\ ret' = RUnset
    /\ events' = <<>>
    /\ printed' = <<>>
    /\ UNCHANGED <<inputs, stack, setup_locals, gen_args, full_response,
                   loop_locals, raised, manifests, daemon_hist, exit_code>>

interactive_except ==
    /\ pc = "interactive_except"
    /\ raised' = "none"
    /\ IF BreaksLoop(raised)
       THEN Return(RNone, <<Say("Goodbye!")>>)
       ELSE Goto("interactive_read", <<Say("Error")>>)
    /\ UNCHANGED <<inputs, setup_locals, gen_locals, loop_locals,
                   manifests, daemon_hist, events, exit_code>>

-----------------------------------------------------------------------------
(* main, from the call of check_and_setup_model on *)

SetupOkUnlessFalse(result) == result.tag # "False"

SetupOk(result) == Truthy(result)

main_setup ==
    /\ pc = "main"
    /\ Call("check_and_setup_model", <<>>)
    /\ UNCHANGED <<inputs, setup_locals, gen_locals, loop_locals, raised,
                   manifests, daemon_hist, events, exit_code>>

main_after_setup ==
    /\ pc = "main_after_setup"
    /\ IF ~SetupOk(ret)
       THEN /\ pc' = "exit"                  \* sys.exit(1)
            /\ stack' = <<>>
            /\ exit_code' = 1
            /\ log' = Append(log, Say("Failed to setup model. Exiting."))
            /\ UNCHANGED <<ret, gen_args>>
       ELSE IF args.prompt # <<>>
       THEN /\ gen_args' = [prompt |-> args.prompt,
                            max_length |-> args.max_length,
                            temperature |-> args.temperature]
            /\ Call("generate_text_ollama_lib", <<>>)
            /\ UNCHANGED exit_code
       ELSE /\ Call("interactive_mode", <<>>)
            /\ UNCHANGED <<gen_args, exit_code>>
    /\ UNCHANGED <<inputs, setup_locals, full_response, printed, loop_locals,
                   raised, manifests, daemon_hist, events>>

main_after_generate ==
    /\ pc = "main_after_generate"
    /\ Call("interactive_mode",
            <<Say(IF Truthy(ret) THEN "Generated text:" ELSE "Failed to generate text.")>>)
    /\ UNCHANGED <<inputs, setup_locals, gen_locals, loop_locals, raised,
                   manifests, daemon_hist, events, exit_code>>

main_end ==
    /\ pc = "main_end"
    /\ pc' = "exit"
    /\ stack' = <<>>
    /\ exit_code' = 0
    /\ UNCHANGED <<inputs, ret, log, setup_locals, gen_locals, loop_locals, raised,
                   manifests, daemon_hist, events>>

(* An exception leaves a function that does not handle it.  Only            *)
(* interactive_mode has a handler around the place an exception can reach;  *)
(* out of main it ends the process with a traceback and exit code 1.        *)
propagate ==
    /\ pc = "raise"
    /\ LET fn == stack[Len(stack)]
           rest == SubSeq(stack, 1, Len(stack) - 1)
       IN IF fn = "interactive_mode"
          THEN /\ pc' = "interactive_except"
               /\ UNCHANGED <<stack, exit_code>>
          ELSE /\ stack' = rest
               /\ pc' = IF rest = <<>> THEN "done" ELSE "raise"
               /\ exit_code' = IF rest = <<>> /\ entry = "main" THEN 1 ELSE exit_code
    /\ UNCHANGED <<inputs, ret, log, setup_locals, gen_locals, loop_locals, raised,
                   manifests, daemon_hist, events>>

-----------------------------------------------------------------------------
(* Initial states: the entry function and its inputs *)

PathTokens == {SEP, "a", "m"}
Paths == SeqsUpTo(PathTokens, MaxPathLen)

FileM == [abs |-> FALSE, comps |-> << <<"m">> >>]
FileAM == [abs |-> FALSE, comps |-> << <<"a">>, <<"m">> >>]
FileRootM == [abs |-> TRUE, comps |-> << <<"m">> >>]
FileAm == [abs |-> FALSE, comps |-> << <<"a", "m">> >>]
FileSystems == {{}, {FileM, FileAM}, {FileRootM, FileAm},
                {FileM, FileAM, FileRootM, FileAm}}

StaleManifest == [at |-> [abs |-> FALSE, comps |-> << <<"a">>, <<"Modelfile">> >>],
                  body |-> <<"FROM ./old", "\n">>]

Temperatures == ((TEMP_MIN - MaxTempOver)..(TEMP_MAX + MaxTempOver)) \cup {NaN}
MaxLengths ==
    {0 - 1, 0, 1, DEFAULT_MAX_LENGTH}
        \cup ((NUM_PREDICT_CAP - MaxLenOver)..(NUM_PREDICT_CAP + MaxLenOver))

MainTapes == {<<>>, <<LineQuit>>, <<LineHelp, LineQuit>>, <<LineHi, INTR>>,
              <<ERR, LineHi, LineQuitPadded>>}

NoGenArgs == [prompt |-> <<>>, max_length |-> DEFAULT_MAX_LENGTH,
              temperature |-> DEFAULT_TEMPERATURE]

NoArgs == [model |-> "x", huggingface_model |-> "", gguf_path |-> <<>>,
           prompt |-> <<>>, max_length |-> DEFAULT_MAX_LENGTH,
           temperature |-> DEFAULT_TEMPERATURE]

Start(fn) ==
    /\ entry = fn
    /\ pc = fn
    /\ stack = <<fn>>
    /\ raised = "none"
    /\ ret = RUnset
    /\ model_folder = <<>>
    /\ gguf_filename = <<>>
    /\ available_models = {}
    /\ full_response = <<>>
    /\ user_input = <<>>
    /\ consumed = <<>>
    /\ intr = FALSE
    /\ probe_resp = NoResp
    /\ list_resp = NoResp
    /\ post_resp = NoResp
    /\ events = <<>>
    /\ printed = <<>>
    /\ log = <<>>
    /\ exit_code = NoExit

InitSetup ==
    /\ Start("check_and_setup_model")
    /\ args \in [model : ModelNames, huggingface_model : {"", "org/m"},
                 gguf_path : Paths, prompt : {<<>>},
                 max_length : {DEFAULT_MAX_LENGTH},
                 temperature : {DEFAULT_TEMPERATURE}]
    /\ files \in FileSystems
    /\ manifests \in {{}, {StaleManifest}}
    /\ stdin = <<>>
    /\ gen_args = NoGenArgs

InitMain ==
    /\ Start("main")
    /\ args \in [model : {"x"}, huggingface_model : {"", "org/m"},
                 gguf_path : {<<>>, <<"a", SEP, "m">>}, prompt : {<<>>, <<"p">>},
                 max_length : {DEFAULT_MAX_LENGTH},
                 temperature : {DEFAULT_TEMPERATURE}]
    /\ files \in {{}, {FileM, FileAM}}
    /\ manifests = {}
    /\ stdin \in MainTapes
    /\ gen_args = NoGenArgs

InitGenerate ==
    /\ \E fn \in {"generate_text_ollama_lib", "generate_text_streaming_ollama_lib"} :
         Start(fn)
    /\ args = NoArgs
    /\ files = {}
    /\ manifests = {}
    /\ stdin = <<>>
    /\ gen_args \in [prompt : {<<"p">>}, max_length : MaxLengths,
                     temperature : Temperatures]

InitInteractive ==
    /\ Start("interactive_mode")
    /\ args = NoArgs
    /\ files = {}
    /\ manifests = {}
    /\ stdin \in SeqsUpTo(TapeSymbols, MaxTurns)
    /\ gen_args = NoGenArgs

Init == InitSetup \/ InitMain \/ InitGenerate \/ InitInteractive

Next ==
    \/ pull_model_post
    \/ pull_model_lines
    \/ create_custom_model_post
    \/ create_custom_model_lines
    \/ register_validate
    \/ register_write
    \/ register_run
    \/ setup_probe
    \/ setup_list
    \/ setup_dispatch
    \/ setup_return
    \/ generate_text_ollama_lib
    \/ stream_start
    \/ stream_chunk
    \/ interactive_start
    \/ interactive_read
    \/ interactive_dispatch
    \/ interactive_after_generate
    \/ interactive_except
    \/ main_setup
    \/ main_after_setup
    \/ main_after_generate
    \/ main_end
    \/ propagate

Spec == Init /\ [][Next]_vars

-----------------------------------------------------------------------------
(* Reading the log *)

At(op, what) == {i \in 1..Len(log) : log[i].op = op /\ log[i].what = what}
Ops(op) == {i \in 1..Len(log) : log[i].op = op}
Calls(fn) == At("call", fn)
Returns(fn) == At("return", fn)
Returned(fn) == Returns(fn) # {}
ResultOf(fn) == log[CHOOSE i \in Returns(fn) : TRUE].body[1]

AcquisitionFns == {"register_gguf_model", "create_custom_model", "pull_model"}
AcquisitionCalls ==
    SelectSeq(log, LAMBDA e : e.op = "call" /\ e.what \in AcquisitionFns)
AcquisitionReturns ==
    SelectSeq(log, LAMBDA e : e.op = "return" /\ e.what \in AcquisitionFns)
Mutations == Ops("POST") \cup Ops("write") \cup Ops("run")

SetupReturned == Returned("check_and_setup_model")
SetupResult == ResultOf("check_and_setup_model")

ProbeOk == ~probe_resp.exc /\ probe_resp.status = 200
ProbeFailed == probe_resp # NoResp /\ (probe_resp.exc \/ probe_resp.status # 200)
ListAnswered == list_resp # NoResp /\ ~list_resp.malformed
DaemonListing ==
    IF ~list_resp.exc /\ list_resp.status = 200 THEN list_resp.names ELSE {}

-----------------------------------------------------------------------------
C1_Expected ==
    IF args.gguf_path # <<>> THEN "register_gguf_model"
    ELSE IF args.huggingface_model # "" THEN "create_custom_model"
    ELSE "pull_model"

(* C1: when the daemon is reachable and the requested name is not in its   *)
(* listing, check_and_setup_model calls exactly one acquisition function,  *)
(* chosen by priority: register_gguf_model if gguf_path is supplied, else  *)
(* create_custom_model if huggingface_model is supplied, else pull_model;  *)
(* no other acquisition function is called, and what the resolver returns  *)
(* is what that one call returned.                                         *)
C1_OneAcquisitionByPriority ==
    (ProbeOk /\ ListAnswered /\ args.model \notin DaemonListing) =>
        /\ pc # "setup_dispatch" =>
             /\ Len(AcquisitionCalls) = 1
             /\ AcquisitionCalls[1].what = C1_Expected
        /\ pc = "setup_dispatch" => AcquisitionCalls = <<>>
        /\ SetupReturned =>
             /\ Len(AcquisitionReturns) = 1
             /\ AcquisitionReturns[1].what = C1_Expected
             /\ SetupResult = AcquisitionReturns[1].body[1]

C1_Witness ==
    /\ ProbeOk /\ ListAnswered /\ args.model \notin DaemonListing
    /\ args.gguf_path # <<>> /\ args.huggingface_model # ""
    /\ SetupReturned /\ SetupResult = "True"
    /\ Calls("register_gguf_model") # {}

-----------------------------------------------------------------------------
C2_Listed ==
    /\ ProbeOk
    /\ ~list_resp.exc /\ list_resp.status = 200 /\ ~list_resp.malformed
    /\ args.model \in list_resp.names

(* C2: when the daemon is reachable and the requested name is in its       *)
(* listing, check_and_setup_model returns True and has made no pull or     *)
(* create request, written no manifest and not run the import tool,        *)
(* whatever gguf_path and huggingface_model are.                           *)
C2_PresentModelNoMutation ==
    C2_Listed =>
        /\ SetupReturned /\ SetupResult = "True"
        /\ Mutations = {}
        /\ AcquisitionCalls = <<>>
        /\ Cardinality(At("GET", "/api/tags")) = 2

C2_Witness ==
    /\ C2_Listed /\ SetupReturned
    /\ args.gguf_path # <<>> /\ args.huggingface_model # ""
    /\ isfile(args.gguf_path)

-----------------------------------------------------------------------------
(* C3: when the liveness probe fails (transport failure or a status other  *)
(* than 200), check_and_setup_model returns False at once: one GET of      *)
(* /api/tags only (no list call), and no registration, creation or pull.   *)
C3_ProbeFailureIsImmediate ==
    ProbeFailed =>
        /\ SetupReturned /\ SetupResult = "False"
        /\ list_resp = NoResp
        /\ Cardinality(At("GET", "/api/tags")) = 1
        /\ At("print", "Error: Ollama is not running!") # {}
        /\ Mutations = {}
        /\ AcquisitionCalls = <<>>

C3_Witness ==
    /\ ProbeFailed /\ probe_resp.exc
    /\ SetupReturned
    /\ args.gguf_path # <<>> /\ args.huggingface_model # ""

-----------------------------------------------------------------------------
(* C4: in main, setup precedes generation.  If check_and_setup_model       *)
(* returns False or None, the process exits with code 1 having made no     *)
(* generation call and without entering the interactive loop.  If it       *)
(* returns True, the one-shot generation (when a prompt is given) runs     *)
(* first, the interactive loop is entered afterwards whether or not the    *)
(* one-shot generation produced text, and the process ends with code 0.    *)
C4_SetupPrecedesGeneration ==
    entry = "main" =>
        /\ \A i \in Ops("chat") \cup Calls("interactive_mode") :
             /\ SetupReturned /\ SetupResult = "True"
             /\ \A j \in Returns("check_and_setup_model") : j < i
        /\ (SetupReturned /\ SetupResult \in {"False", "None"}) =>
             /\ pc \in {"main_after_setup", "exit"}
             /\ pc = "exit" => exit_code = 1
             /\ Ops("chat") = {}
             /\ Calls("interactive_mode") = {}
        /\ (SetupReturned /\ SetupResult = "True") =>
             /\ exit_code \in {NoExit, 0}
             /\ Cardinality(At("chat", "single")) <= 1
             /\ args.prompt = <<>> => At("chat", "single") = {}
             /\ (args.prompt # <<>>
                   /\ pc \notin {"main_after_setup", "generate_text_ollama_lib"}) =>
                  At("chat", "single") # {}
             /\ \A i \in At("chat", "single") :
                  \A j \in Calls("interactive_mode") \cup At("chat", "stream") : i < j
             /\ (Returned("generate_text_ollama_lib") /\ pc # "main_after_generate") =>
                  Calls("interactive_mode") # {}
             /\ (pc \notin {"main_after_setup", "generate_text_ollama_lib",
                            "main_after_generate"}) =>
                  Cardinality(Calls("interactive_mode")) = 1
             /\ pc = "exit" => exit_code = 0 /\ Returned("interactive_mode")
             /\ Returned("interactive_mode") => pc \in {"main_end", "exit"}
        /\ exit_code # NoExit => pc \in {"exit", "done"}

C4_Witness ==
    /\ entry = "main"
    /\ pc = "exit" /\ exit_code = 0
    /\ Returned("generate_text_ollama_lib")
    /\ ResultOf("generate_text_ollama_lib") = "None"
    /\ At("print", "Failed to generate text.") # {}
    /\ At("chat", "stream") # {}

-----------------------------------------------------------------------------
C5_KindOf(line) ==
    CASE line \in {LineQuit, LineQuitPadded} -> "quit"
      [] line \in {LineHelp, LineHelpUpper} -> "help"
      [] line = LineClear -> "clear"
      [] line \in {LineEmpty, LineBlank} -> "empty"
      [] line \in {LineHi, LineHiPadded, LineQuitNow} -> "prompt"

C5_LinesRead == SelectSeq(consumed, LAMBDA s : s \notin {INTR, ERR})

C5_Count(kind) == Len(SelectSeq(C5_LinesRead, LAMBDA l : C5_KindOf(l) = kind))

C5_TurnOver == pc = "interactive_read" \/ Returned("interactive_mode")

(* C5: in interactive_mode, the number of streaming generation calls is    *)
(* the number of lines read that, trimmed, are non-empty and are not       *)
(* quit, help or clear in any letter case; help prints the command list    *)
(* once per occurrence; no line is read after quit.                        *)
C5_GenerationPerPromptLine ==
    entry \in {"interactive_mode", "main"} =>
    /\ C5_TurnOver =>
         /\ Cardinality(At("chat", "stream")) = C5_Count("prompt")
         /\ Cardinality(Calls("generate_text_streaming_ollama_lib")) = C5_Count("prompt")
         /\ Cardinality(At("print", "Commands:")) = C5_Count("help")
    /\ Cardinality(At("chat", "stream")) <= C5_Count("prompt")
    /\ \A i \in 1..(Len(consumed) - 1) :
         consumed[i] \in InputLines => C5_KindOf(consumed[i]) # "quit"
    /\ (pc = "interactive_read" /\ C5_LinesRead # <<>>) =>
         C5_KindOf(C5_LinesRead[Len(C5_LinesRead)]) # "quit"

C5_Witness ==
    /\ Returned("interactive_mode")
    /\ consumed = <<LineHelpUpper, LineQuitPadded>>
    /\ Cardinality(At("print", "Commands:")) = 1
    /\ At("chat", "stream") = {}
    /\ stdin = <<>>

-----------------------------------------------------------------------------
C6_Count(symbol) == Len(SelectSeq(consumed, LAMBDA s : s = symbol))

C6_QuitRead ==
    /\ C5_LinesRead # <<>>
    /\ consumed[Len(consumed)] \in {LineQuit, LineQuitPadded}

(* C6: the interactive loop ends in exactly two ways, each with a          *)
(* farewell: a quit line or an operator interrupt.  Any other exception    *)
(* in a turn is caught and logged and the loop reads on; a generation      *)
(* that returns nothing does not end the loop either.                      *)
C6_LoopEndsOnlyOnQuitOrInterrupt ==
    /\ Returned("interactive_mode") =>
         /\ C6_QuitRead \/ intr
         /\ Cardinality(At("print", "Goodbye!")) = 1
         /\ \A i \in Returns("interactive_mode") :
              i > 1 /\ log[i - 1] = Say("Goodbye!")
    /\ ~Returned("interactive_mode") => At("print", "Goodbye!") = {}
    /\ (Calls("interactive_mode") # {} \/ entry = "interactive_mode") =>
         /\ ~Returned("interactive_mode") =>
              /\ \E i \in 1..Len(stack) : stack[i] = "interactive_mode"
              /\ pc \notin {"done", "exit"}
         /\ pc = "interactive_read" =>
              /\ ~intr
              /\ ~C6_QuitRead
              /\ raised = "none"
              /\ Cardinality(At("print", "Error")) = C6_Count(ERR)
         /\ Cardinality(At("print", "Failed to generate response."))
              <= Cardinality(At("chat", "stream"))

C6_Witness ==
    /\ pc = "interactive_read"
    /\ consumed = <<ERR, LineHi>>
    /\ At("print", "Error") # {}
    /\ At("print", "Failed to generate response.") # {}

-----------------------------------------------------------------------------
C7_Delivered ==
    LET chunks == SelectSeq(events, LAMBDA e : e.kind = "chunk")
    IN [i \in 1..Len(chunks) |-> chunks[i].text]

C7_StreamReturned ==
    \/ pc = "interactive_after_generate"
    \/ entry = "generate_text_streaming_ollama_lib" /\ pc = "done"

(* C7: generate_text_streaming_ollama_lib returns the concatenation, in    *)
(* arrival order, of the fragments it printed; it printed every fragment   *)
(* the stream delivered; a stream that ends normally yields a text and a   *)
(* stream that fails yields None.                                          *)
C7_ReturnsConcatenationOfPrinted ==
    /\ pc \in {"stream_chunk", "interactive_after_generate"} => printed = C7_Delivered
    /\ C7_StreamReturned =>
         /\ printed = C7_Delivered
         /\ ret.tag = "text" => ret.text = Flatten(printed)
         /\ events[Len(events)].kind = "eof" <=> ret.tag = "text"
         /\ events[Len(events)].kind # "eof" => ret = RNone

C7_Witness ==
    /\ C7_StreamReturned
    /\ ret.tag = "text"
    /\ printed = << <<"b", "c">>, <<"a">> >>
    /\ ret.text = <<"b", "c", "a">>

-----------------------------------------------------------------------------
C9_Sent(e) ==
    LET t == gen_args.temperature
        m == gen_args.max_length
    IN /\ 1 <= e.opts[1] /\ e.opts[1] <= 20
       /\ e.opts[2] <= 2048
       /\ (t # NaN /\ 1 <= t /\ t <= 20) => e.opts[1] = t
       /\ (t # NaN /\ t < 1) => e.opts[1] = 1
       /\ (t # NaN /\ t > 20) => e.opts[1] = 20
       /\ m <= 2048 => e.opts[2] = m
       /\ m > 2048 => e.opts[2] = 2048

(* C9: in both generation functions the options sent satisfy 0.1 <=        *)
(* temperature <= 2.0 and num_predict <= 2048: an in-range temperature     *)
(* and a max length of at most 2048 go through unchanged, a temperature    *)
(* outside the interval becomes the nearest bound, a larger max length     *)
(* becomes 2048, and the request is made whatever the values are.          *)
C9_OptionsClamped ==
    /\ \A i \in Ops("chat") :
         /\ 1 <= log[i].opts[1] /\ log[i].opts[1] <= 20
         /\ log[i].opts[2] <= 2048
    /\ entry \in {"generate_text_ollama_lib", "generate_text_streaming_ollama_lib"} =>
         /\ pc # entry => Cardinality(Ops("chat")) = 1
         /\ \A i \in Ops("chat") :
              /\ C9_Sent(log[i])
              /\ log[i].what = (IF entry = "generate_text_ollama_lib"
                                THEN "single" ELSE "stream")

C9_Witness ==
    /\ entry = "generate_text_streaming_ollama_lib"
    /\ gen_args.temperature = 0 /\ gen_args.max_length = 2049
    /\ \E i \in At("chat", "stream") : log[i].opts = <<1, 2048>>

-----------------------------------------------------------------------------
C10_File == Resolve(args.gguf_path)

C10_FileExists ==
    /\ args.gguf_path # <<>>
    /\ args.gguf_path[Len(args.gguf_path)] # SEP
    /\ C10_File \in files

C10_FileName == C10_File.comps[Len(C10_File.comps)]

C10_ManifestPlace ==
    [abs |-> C10_File.abs,
     comps |-> SubSeq(C10_File.comps, 1, Len(C10_File.comps) - 1)
                 \o << <<"Modelfile">> >>]

(* C10: register_gguf_model, given a file path split into folder and file  *)
(* name.  If the file exists it writes the manifest into the directory     *)
(* that holds the file, replacing what was there, with the source line     *)
(* FROM ./<file name>, and only then runs `ollama create <name> -f         *)
(* <manifest>`, returning True if the tool succeeds and False if it        *)
(* fails (False, and no tool run, if the manifest cannot be written).  If  *)
(* the file does not exist it returns False, writes nothing and runs       *)
(* nothing.                                                                *)
C10_ManifestThenImport ==
    Calls("register_gguf_model") # {} =>
        /\ Cardinality(Ops("write")) <= 1
        /\ Cardinality(Ops("run")) <= 1
        /\ \A i \in Ops("write") :
             /\ C10_FileExists
             /\ Resolve(log[i].arg) = C10_ManifestPlace
             /\ log[i].body = <<"FROM ./">> \o C10_FileName \o <<"\n">>
             /\ {m \in manifests : m.at = C10_ManifestPlace}
                  = {[at |-> C10_ManifestPlace, body |-> log[i].body]}
        /\ \A i \in Ops("run") :
             /\ i > 1
             /\ log[i - 1].op = "write"
             /\ log[i].arg = log[i - 1].arg
             /\ log[i].body = <<"ollama", "create", args.model, "-f">>
        /\ Returned("register_gguf_model") =>
             LET result == ResultOf("register_gguf_model")
             IN /\ result \in {"True", "False"}
                /\ ~C10_FileExists =>
                     result = "False" /\ Ops("write") = {} /\ Ops("run") = {}
                /\ (C10_FileExists /\ Ops("write") # {}) => Ops("run") # {}
                /\ (C10_FileExists /\ Ops("write") = {}) =>
                     result = "False" /\ Ops("run") = {}
                /\ result = "True" <=> (\E i \in Ops("run") : log[i].what = "ok")
        /\ pc = "register_write" => C10_FileExists
        /\ pc = "register_run" => Ops("write") # {}

C10_Witness ==
    /\ Returned("register_gguf_model")
    /\ ResultOf("register_gguf_model") = "True"
    /\ args.gguf_path = <<"a", SEP, "m">>
    /\ manifests = {[at |-> StaleManifest.at, body |-> <<"FROM ./", "m", "\n">>]}

-----------------------------------------------------------------------------
C8_Fn == AcquisitionCalls[1].what

C8_ClientCalled ==
    /\ AcquisitionCalls # <<>>
    /\ C8_Fn \in {"pull_model", "create_custom_model"}
    /\ post_resp # NoResp

C8_RequestFailed == post_resp.exc \/ post_resp.status # 200

C8_CompletedAtSeen ==
    \E i \in 1..Len(events) :
        events[i].kind = "json" /\ "completed_at" \in events[i].keys

C8_OneRequestSoftFailure ==
    C8_ClientCalled =>
        /\ Cardinality(Ops("POST")) = 1
        /\ C8_RequestFailed =>
             /\ raised = "none"
             /\ Returned(C8_Fn)
             /\ ResultOf(C8_Fn) \in {"False", "None"}

(* C8: pull_model and create_custom_model send exactly one request, never  *)
(* raise for a non-200 status or a transport failure but return a falsy    *)
(* result, and return True if and only if the status is 200 and the        *)
(* streamed events include one carrying a completed_at field.              *)
C8_TrueIffCompletedAt ==
    /\ C8_OneRequestSoftFailure
    /\ (C8_ClientCalled /\ pc = "setup_return") =>
         (ResultOf(C8_Fn) = "True" <=> (~C8_RequestFailed /\ C8_CompletedAtSeen))

====
